---- MODULE Spec2Model ----
(***************************************************************************)
(* Model of the incremental build pipeline of kuranne/run:                 *)
(*   util/cache.py           CacheManager (hash table + object store)      *)
(*   runner/c_family_handler.py / runner/core.py                           *)
(*                           _compile_object_file, _handle_multi_c_family  *)
(*   runner/base_runner.py   run_command, cleanup                          *)
(*   main.py                 one invocation = construct, build, cleanup    *)
(*                                                                         *)
(* One invocation builds the batch Sources with one thread-pool job per    *)
(* source.  The jobs share the CacheManager: its in-memory dict cache_data *)
(* and the table file .run_cache/cache.json.  Nothing in the code locks    *)
(* either, so every shared access is a separate step here.                 *)
(***************************************************************************)
EXTENDS Naturals, Sequences, FiniteSets, TLC

\* ---------------------------------------------------------------- bounds
MaxBuilds == 2      \* invocations of the tool in one behaviour
NumContents == 2    \* distinct byte contents a source file can have
MaxSources == 34    \* sources in one batch handed to the thread pool

\* The batch of one invocation: the test project of tests/test_caching.py.
Sources == {"main.c", "lib.c"}
Contents == 1..NumContents

\* A source that was never compiled has compiled-from content 0.
NoObject == 0

VARIABLES
    \* ---- the file system
    content,        \* content[s]: current bytes of source s
    cacheDir,       \* .run_cache exists
    objsDir,        \* .run_cache/objs exists
    cacheFile,      \* .run_cache/cache.json exists
    cacheText,      \* its text, a sequence of tokens (see Tokens)
    objs,           \* objs[s]: bytes the cached object of s was compiled from
    localObjs,      \* localObjs[s]: the object beside source s exists
    exe,            \* the linked executable exists
    locked,         \* paths whose unlink the operating system refuses
    \* ---- the running invocation (CompilerRunner + CacheManager)
    phase,          \* position of the main thread
    cacheOn,        \* self.cache is a CacheManager (not None)
    keep,           \* flags["keep"]
    dry_run,        \* BaseRunner.dry_run
    cache_data,     \* CacheManager.cache_data, an insertion-ordered dict
    pc,             \* pc[s]: position of the pool job of source s
    res,            \* res[s]: what _compile_object_file(s) returned
    buf,            \* buf[s]: text job s has written to its open file object
    n0,             \* n0[s]: dict size seen when job s began to iterate
    collected,      \* collected[s]: as_completed has yielded the job of s
    object_files,   \* local object_files of _handle_multi_c_family
    failed,         \* local failed of _handle_multi_c_family
    output_files,   \* BaseRunner.output_files
    error,          \* kind of the exception the invocation ended with
    \* ---- history
    builds,         \* invocations started
    invoked,        \* sources whose compile command went to run_command
    cfail,          \* sources whose compile command failed
    nonzero,        \* commands of this invocation that exited non-zero
    recorded,       \* recorded[s]: bytes hashed by update_cache(s) in this instance
    lastOk,         \* lastOk[s]: bytes recorded after the last compile of s since clear
    linked,         \* the link command went to run_command
    executed,       \* _execute_binary was called
    ioFailed,       \* some save of the table could not open the file
    op,             \* the last CacheManager method a direct caller invoked
    objPaths,       \* objPaths[p]: first and last result of get_object_path(p)
    reported,       \* sources named by the error lines of this invocation
    \* ---- configuration and the files of a run without --multi
    data,           \* Config.data, the parsed Run.toml
    loaded,         \* outcome of Config.__init__ in this invocation
    files,          \* the files of the invocation not handled yet
    issued,         \* the files for which a command went to run_command
    raised,         \* the exception compile_and_run ended with
    resolved,       \* the rule the last handled file was resolved to
    \* ---- the thread pool of a large batch
    cpu_count,      \* os.cpu_count()
    nsources,       \* len(sources)
    submitted,      \* jobs handed to executor.submit
    running,        \* jobs a worker thread is executing
    finished,       \* jobs that have returned
    \* ---- run_command called on its own
    lastRun,        \* the last call of run_command and what it gave
    spawned,        \* processes spawned by run_command so far
    \* ---- the command line of the invocation
    args,           \* runner, extra flags, preset and headers of the invocation
    objCmd,         \* objCmd[s]: the command the cached object of s was built by
    \* ---- main() of one process after another
    runs,           \* processes started so far
    mpc,            \* position of main() in the running process
    branch,         \* the branch of main() that was taken
    cr,             \* how compile_and_run ended
    started,        \* calls of compile_and_run in this process
    cleanups,       \* calls of runner.cleanup() in this process
    exit_code,      \* what main() returned
    \* ---- the object paths of one batch
    batch,          \* the sources handed to _handle_multi_c_family
    batchCache,     \* whether the batch is compiled with a cache
    objOf           \* pairs <<source, obj_file>> of the jobs that have begun

fsVars == <<content, cacheDir, objsDir, cacheFile, cacheText, objs, localObjs,
           exe, locked>>
jobVars == <<pc, res, buf, n0>>
mainVars == <<phase, cacheOn, keep, dry_run, collected, object_files, failed,
             output_files, error>>
histVars == <<builds, invoked, cfail, nonzero, recorded, lastOk, linked,
              executed, ioFailed, op, objPaths, reported>>
buildVars == <<fsVars, cache_data, jobVars, mainVars, histVars>>
confVars == <<data, loaded, files, issued, raised, resolved>>
poolVars == <<cpu_count, nsources, submitted, running, finished>>
runVars == <<lastRun, spawned>>
cmdVars == <<args, objCmd>>
procVars == <<runs, mpc, branch, cr, started, cleanups, exit_code>>
objVars == <<batch, batchCache, objOf>>
extVars == <<runVars, cmdVars, procVars, objVars>>
sideVars == <<confVars, poolVars, extVars>>
vars == <<buildVars, sideVars>>

\* --------------------------------------------------------------- Config
\* The files named on the command line: stem and suffix as typed.
File(stem, suffix) == [stem |-> stem, suffix |-> suffix]
Files ==
    {File("a", ".py"), File("b", ".kt"), File("B", ".KT"), File("m", ".c"),
     File("J", ".java")}
FileLists ==
    {<<f>> : f \in Files}
        \cup {<<f, g>> : f \in {File("a", ".py"), File("m", ".c")}, g \in Files}

\* str.lower() on the suffixes of Files.
lower(e) ==
    CASE e = ".KT" -> ".kt"
      [] OTHER -> e

\* The extensions CompilerRunner handles itself.
c_family_ext == {".c", ".cpp", ".cc"}
java_ext == {".java"}
builtin_ext == {".py", ".lua", ".rs", ".java"} \cup c_family_ext

\* One [language.<name>] entry of Run.toml.  table: the entry is a table;
\* extKind: the key extensions is missing, holds a scalar, or holds a list.
Decl(n, tb, k, x, r, ty) ==
    [name |-> n, table |-> tb, extKind |-> k, extensions |-> x, runner |-> r,
     type |-> ty]
ExtLists == {<<>>, <<".kt">>, <<".KT", ".py">>}
Runners == {"missing", "", "kotlinc"}
Types == {"missing", "interpreter", "compiler", "script"}
Decls(n) ==
    {Decl(n, FALSE, "missing", <<>>, "missing", "missing")}
        \cup {Decl(n, TRUE, k, <<>>, r, ty) :
                 k \in {"missing", "scalar"}, r \in Runners, ty \in Types}
        \cup {Decl(n, TRUE, "list", x, r, ty) :
                 x \in ExtLists, r \in Runners, ty \in Types}

\* What validate() raises for one entry of the language table.
validate_language(l) ==
    IF ~l.table THEN "ValueError"
    ELSE IF l.extKind = "missing" THEN "ValueError"
    ELSE IF l.extKind # "list" THEN "ValueError"
    ELSE IF l.runner = "missing" THEN "ValueError"
    ELSE "ok"

\* Config.validate on the parsed file: the sections runner and language
\* are absent, a table, or a scalar; langs are the entries of language in
\* the order of the file.
validate(d) ==
    IF d.runner = "scalar" THEN "ValueError"
    ELSE IF d.language = "scalar" THEN "ValueError"
    ELSE IF \E i \in DOMAIN d.langs : validate_language(d.langs[i]) # "ok"
         THEN "ValueError"
    ELSE "ok"

\* The parsed files the model loads: any first entry, and after a first
\* entry that validate() accepts any second entry.
Data(r, lg, ls) == [runner |-> r, language |-> lg, langs |-> ls]
NoData == Data("absent", "absent", <<>>)
LangTables ==
    {<<>>} \cup {<<d>> : d \in Decls("kotlin")}
        \cup {<<d, e>> : d \in {x \in Decls("kotlin") : validate_language(x) = "ok"},
                         e \in Decls("kscript")}
Configs ==
    {Data(r, lg, <<>>) : r \in {"absent", "table", "scalar"},
                         lg \in {"absent", "scalar"}}
        \cup {Data("absent", "table", ls) : ls \in LangTables}

\* No file resolved yet.
NoRule == [file |-> File("", ""), rule |-> "none"]

\* Config.get_language_by_extension: the index of the first entry whose
\* extensions hold ext, 0 for None.
get_language_by_extension(d, ext) ==
    LET m == {i \in DOMAIN d.langs :
                 \E j \in DOMAIN d.langs[i].extensions :
                     d.langs[i].extensions[j] = ext}
    IN  IF m = {} THEN 0 ELSE CHOOSE i \in m : \A k \in m : i <= k

\* What _handle_custom_language raises before any command, "none" when it
\* goes on to run_command.
handle_custom_language_error(l) ==
    IF l.runner \in {"missing", ""} THEN "ConfigError: no runner"
    ELSE IF l.type \in {"missing", "interpreter", "compiler"} THEN "none"
    ELSE "ConfigError: unknown type"

\* ------------------------------------------------------- CacheManager, pure
\* A source file that does not exist (Path.exists() is false).
Missing == 0

\* The working directory the tool is started in.
Cwd == "/project"

\* str(file_path.absolute()): the working directory joined with the path.
AbsPath(s) == <<Cwd, s>>

\* hashlib.md5(bytes).hexdigest(); on the bounded set of contents md5 has no
\* collision, so distinct contents have distinct digests.
hexdigest(c) == <<"md5", c>>

\* The empty string get_file_hash returns for a file it cannot read.
EmptyStr == <<"", 0>>

\* CacheManager.get_file_hash, of a file with bytes c (Missing: no file).
get_file_hash(c) == IF c = Missing THEN EmptyStr ELSE hexdigest(c)

\* A dict is the sequence of its items in insertion order.
Item(key, h) == [k |-> key, h |-> h]
Keys(d) == {d[i].k : i \in DOMAIN d}
Lookup(d, key) == d[CHOOSE i \in DOMAIN d : d[i].k = key].h
SetItem(d, key, h) ==
    IF key \in Keys(d)
    THEN [i \in DOMAIN d |-> IF d[i].k = key THEN Item(key, h) ELSE d[i]]
    ELSE Append(d, Item(key, h))

\* is_changed without the hash comparison: a recorded key is never stale.
is_changed_key_only(d, s, c) == AbsPath(s) \notin Keys(d)

\* CacheManager.is_changed on table d, for source s with bytes c.
is_changed(d, s, c) ==
    IF AbsPath(s) \notin Keys(d)
    THEN TRUE
    ELSE Lookup(d, AbsPath(s)) # get_file_hash(c)

\* The dict assignment of CacheManager.update_cache.
update_cache(d, s, c) == SetItem(d, AbsPath(s), get_file_hash(c))

\* A directory below the working directory.
SubDir == "/project/sub"

\* The absolute source paths get_object_path is called with: the batch, and
\* a file named like one of the batch in another directory.
Paths == {AbsPath(s) : s \in Sources} \cup {<<SubDir, "main.c">>}

\* self.objs_dir: project_root / ".run_cache" / "objs", project_root being
\* Path(".").
objs_dir == <<".", ".run_cache", "objs">>

\* The bytes of the file at absolute path p; the file in SubDir is never
\* rewritten.
BytesAt(p) == IF p[1] = Cwd THEN content[p[2]] ELSE 1

\* An object path that hashes the source's bytes along with its path.
get_object_path_of_bytes(p) ==
    <<objs_dir, hexdigest(<<p, BytesAt(p)>>), "_", p[2], ".o">>

\* An object path that hashes the file name only.
get_object_path_by_name(p) == <<objs_dir, hexdigest(p[2]), "_", p[2], ".o">>

\* The path CacheManager.get_object_path returns for the absolute source
\* path p = <<directory, name>>: objs_dir / "<md5 of p>_<name>.o".
get_object_path(p) == <<objs_dir, hexdigest(p), "_", p[2], ".o">>

\* A relative path as pathlib sees it: <<parent, stem, suffix>>.
PathOf(parent, stem, suffix) == <<parent, stem, suffix>>

\* Path.with_suffix: the last suffix is replaced.
with_suffix(p, suffix) == <<p[1], p[2], suffix>>

\* Path.name, the stem followed by the suffix.
NameOf(p) == <<p[2], p[3]>>

\* Path.absolute() as the string get_object_path hashes: <<directory, name>>;
\* the one directory below the working directory is SubDir.
absolute(p) == <<IF p[1] = "." THEN Cwd ELSE SubDir, NameOf(p)>>

\* The sources of the batch as paths.
SourceFile(s) ==
    IF s = "main.c" THEN PathOf(".", "main", ".c") ELSE PathOf(".", "lib", ".c")

\* obj_file of _compile_object_file without a cache, on a POSIX system:
\* source.with_suffix(".o").
local_object_path(s) == with_suffix(SourceFile(s), ".o")

\* Files that can be put in one batch: two of one stem in one directory,
\* another stem, and a file of the same name in another directory.
BatchFiles ==
    {PathOf(".", "a", ".c"), PathOf(".", "a", ".cpp"), PathOf(".", "b", ".c"),
     PathOf("sub", "a", ".c")}

\* obj_file of _compile_object_file for a source path, with a cache
\* (cache.get_object_path) and without one (source.with_suffix(".o")).
obj_file(cache, source) ==
    IF cache THEN get_object_path(absolute(source))
    ELSE with_suffix(source, ".o")

\* Why a command run by run_command did not succeed.
Causes == {"nonzero", "notfound"}

\* A run_command whose failure depends on the step alone.
run_command_error_by_step(compiling, cause) ==
    IF compiling THEN "CompilationError" ELSE "ExecutionError"

\* A run_command that raises ExecutionError for every failure.
run_command_error_always_execution(compiling, cause) == "ExecutionError"

\* The exception run_command raises: CompilationError for a non-zero exit of
\* a compiling command, ExecutionError for a non-zero exit of another
\* command and for a command that is not found.
run_command_error(compiling, cause) ==
    IF cause = "nonzero" /\ compiling THEN "CompilationError"
    ELSE "ExecutionError"

\* The exception _handle_multi_c_family raises after a failed compile phase.
compile_phase_error == "ExecutionError"

\* ------------------------------------------------- the table file's text
\* json.dump writes the items in dict order and then the closing brace.  The
\* text is kept as one token per item plus the closing token; the item of a
\* given key always has the same length (a digest is 32 hex digits).
EndToken == [k |-> <<"}", "}">>, h |-> EmptyStr]

\* A write of text w at offset 0 into a file holding f: the file keeps
\* whatever of f lies beyond the end of w (the file is not truncated by a
\* write, only by open(..., "w")).
WriteAt0(w, f) == w \o SubSeq(f, Len(w) + 1, Len(f))

\* json.load succeeds on a text that is items followed by one closing brace.
WellFormed(f) ==
    /\ Len(f) >= 1
    /\ f[Len(f)] = EndToken
    /\ \A i \in 1..(Len(f) - 1) : f[i] # EndToken

\* CacheManager._load_cache: the table a new instance starts with, given
\* whether the table file exists and its text.  A text json.load rejects
\* gives the empty table ("Failed to load cache, starting fresh").
load_cache(exists, f) ==
    IF exists /\ WellFormed(f) THEN SubSeq(f, 1, Len(f) - 1) ELSE <<>>

\* ------------------------------------------------------------ run_command
MaxCalls == 4       \* calls of run_command by one direct caller

\* What the command does when it is spawned: it exits with code 0, exits
\* with another code, or subprocess.run raises FileNotFoundError.
Outcomes == {"zero"} \cup Causes

\* What run_command(cmd, compiling) gives: "True" in a dry run and for exit
\* code 0, otherwise the exception it raises.
run_command(dry, compiling, outcome) ==
    IF dry THEN "True"
    ELSE IF outcome = "zero" THEN "True"
    ELSE run_command_error(compiling, outcome)

\* A run_command that hands the command to subprocess.run in a dry run too.
run_command_spawns_in_dry_run(dry, outcome) == outcome # "notfound"

\* Whether run_command starts a process: not in a dry run, and not when the
\* program is not found.
run_command_spawns(dry, outcome) == ~dry /\ outcome # "notfound"

\* No call of run_command yet.
NoRun == [seq |-> 0, dry |-> FALSE, compiling |-> FALSE, outcome |-> "zero",
          result |-> "none"]

\* ------------------------------------------------- the compile command
\* What the command line and Run.toml give _handle_multi_c_family: the
\* compiler of [runner], the --flags string split, the --preset name and the
\* directories of the header files among the paths.
Args(runner, extra_flags, preset, header_dirs) ==
    [runner |-> runner, extra_flags |-> extra_flags, preset |-> preset,
     header_dirs |-> header_dirs]

\* No option given: gcc, no extra flag, no preset, no header.
PlainArgs == Args("gcc", <<>>, "None", <<>>)

\* The plain invocation and four others that differ from it in one part.
CommandLines ==
    {PlainArgs,
     Args("clang", <<>>, "None", <<>>),
     Args("gcc", <<"-DNDEBUG">>, "None", <<>>),
     Args("gcc", <<>>, "release", <<>>),
     Args("gcc", <<>>, "None", <<"include">>)}

\* Config.get_preset_flags under a Run.toml with [preset.release] c = "-O2".
get_preset_flags(preset) ==
    IF preset = "None" THEN <<>>
    ELSE IF preset = "release" THEN <<"-O2">>
    ELSE <<>>

\* The -I option of each header directory.
include_flags(dirs) == [i \in DOMAIN dirs |-> <<"-I", dirs[i]>>]

\* base_cmd of _handle_multi_c_family.
base_cmd(a) ==
    a.extra_flags \o get_preset_flags(a.preset) \o include_flags(a.header_dirs)

\* The command of _compile_object_file without the source and object paths:
\* the compiler, then base_cmd.
compile_cmd(a) == <<a.runner>> \o base_cmd(a)

\* ------------------------------------------------------------------ main
MaxRuns == 3        \* processes started one after another

\* main() has not returned.
NoExit == 3

\* What the command line and the directory give main(): files named or not,
\* -L given or not, source files found by the search or not, a Cargo.toml
\* or not, and what the user types at the prompt.
Typed == {"EOF", "", "files"}
Inputs ==
    [files : BOOLEAN, link_auto : BOOLEAN, found : BOOLEAN, cargo : BOOLEAN,
     typed : Typed]

\* The branch of main() taken under input i.
main_branch(i) ==
    IF i.files THEN "files"
    ELSE IF i.link_auto THEN "link_auto"
    ELSE IF i.cargo THEN "cargo"
    ELSE "input"

\* How a call of compile_and_run ends: it returns, raises one of the
\* RunError classes or another exception, or the user interrupts it.
RunErrors == {"CompilationError", "ExecutionError", "ConfigError"}
Endings == {"returned", "Exception", "KeyboardInterrupt"} \cup RunErrors

\* The value main() returns after an ending e in branch b; an interrupt
\* outside the prompt branch is caught by no handler of main(), which then
\* returns nothing.
main_returns(b, e) ==
    IF e = "returned" THEN 0
    ELSE IF e = "KeyboardInterrupt" /\ b # "input" THEN NoExit
    ELSE 1

\* --------------------------------------------------------------- initial
\* A fresh project: the sources exist, nothing was ever built.
Init ==
    /\ content = [s \in Sources |-> 1]
    /\ cacheDir = FALSE
    /\ objsDir = FALSE
    /\ cacheFile = FALSE
    /\ cacheText = <<>>
    /\ objs = [s \in Sources |-> NoObject]
    /\ localObjs = [s \in Sources |-> FALSE]
    /\ exe = FALSE
    /\ locked = {}
    /\ phase = "idle"
    /\ cacheOn = TRUE
    /\ keep = FALSE
    /\ dry_run = FALSE
    /\ cache_data = <<>>
    /\ pc = [s \in Sources |-> "none"]
    /\ res = [s \in Sources |-> "pending"]
    /\ buf = [s \in Sources |-> <<>>]
    /\ n0 = [s \in Sources |-> 0]
    /\ collected = [s \in Sources |-> FALSE]
    /\ object_files = <<>>
    /\ failed = FALSE
    /\ output_files = <<>>
    /\ error = "none"
    /\ builds = 0
    /\ invoked = {}
    /\ cfail = {}
    /\ nonzero = {}
    /\ recorded = [s \in Sources |-> <<>>]
    /\ lastOk = [s \in Sources |-> <<>>]
    /\ linked = FALSE
    /\ executed = FALSE
    /\ ioFailed = FALSE
    /\ op = "none"
    /\ objPaths = [p \in Paths |-> <<>>]
    /\ reported = {}
    /\ data = NoData
    /\ loaded = "no"
    /\ files = <<>>
    /\ issued = {}
    /\ raised = "none"
    /\ resolved = NoRule
    /\ cpu_count = 1
    /\ nsources = 0
    /\ submitted = 0
    /\ running = 0
    /\ finished = 0
    /\ lastRun = NoRun
    /\ spawned = 0
    /\ args = PlainArgs
    /\ objCmd = [s \in Sources |-> <<>>]
    /\ runs = 0
    /\ mpc = "none"
    /\ branch = "none"
    /\ cr = "none"
    /\ started = 0
    /\ cleanups = 0
    /\ exit_code = NoExit
    /\ batch = {}
    /\ batchCache = TRUE
    /\ objOf = {}

\* ------------------------------------------------- _compile_object_file
\* The object file of s exists at the path the job uses.
ObjExists(s) == IF cacheOn THEN objs[s] # NoObject ELSE localObjs[s]

\* The cache-hit test without the staleness test: any existing object hits.
CacheHit_any_object(s) == cacheOn /\ ObjExists(s)

\* The cache-hit test of _compile_object_file.
CacheHit(s) ==
    /\ cacheOn
    /\ ~is_changed(cache_data, s, content[s])
    /\ ObjExists(s)

\* A job whose future never completes.
Return_lost(s, r) ==
    /\ pc' = [pc EXCEPT ![s] = "lost"]
    /\ res' = [res EXCEPT ![s] = r]
    /\ buf' = [buf EXCEPT ![s] = <<>>]
    /\ n0' = [n0 EXCEPT ![s] = 0]

\* The job returns: value r, and its file object is gone.
Return(s, r) ==
    /\ pc' = [pc EXCEPT ![s] = "done"]
    /\ res' = [res EXCEPT ![s] = r]
    /\ buf' = [buf EXCEPT ![s] = <<>>]
    /\ n0' = [n0 EXCEPT ![s] = 0]

\* A job that asks the cache for the object path even when there is none.
JobCheck_always_mkdir(s) ==
    /\ phase = "compiling"
    /\ pc[s] = "queued"
    /\ cacheDir' = TRUE /\ objsDir' = TRUE
    /\ IF CacheHit(s)
       THEN Return(s, "obj")
       ELSE /\ pc' = [pc EXCEPT ![s] = "run"]
            /\ UNCHANGED <<res, buf, n0>>
    /\ UNCHANGED locked
    /\ UNCHANGED sideVars
    /\ UNCHANGED <<content, cacheFile, cacheText, objs, localObjs, exe,
                   cache_data, mainVars, histVars>>

\* A pool thread takes the job: get_object_path (which creates the object
\* directory when there is a cache) and the cache-hit test.
JobCheck(s) ==
    /\ phase = "compiling"
    /\ pc[s] = "queued"
    /\ IF cacheOn
       THEN cacheDir' = TRUE /\ objsDir' = TRUE
       ELSE UNCHANGED <<cacheDir, objsDir>>
    /\ IF CacheHit(s)
       THEN Return(s, "obj")
       ELSE /\ pc' = [pc EXCEPT ![s] = "run"]
            /\ UNCHANGED <<res, buf, n0>>
    /\ UNCHANGED locked
    /\ UNCHANGED sideVars
    /\ UNCHANGED <<content, cacheFile, cacheText, objs, localObjs, exe,
                   cache_data, mainVars, builds, invoked, cfail, nonzero, recorded,
                   lastOk, linked, executed, ioFailed, op, objPaths, reported>>

\* run_command(cmd, compiling=True) returns True: the compiler wrote the
\* object from the bytes the source has now, or, in a dry run, the command
\* was only printed and no object was written.  A compiler that finds no
\* source file does not exit 0.
JobCompileOk(s) ==
    /\ pc[s] = "run"
    /\ dry_run \/ content[s] # Missing
    /\ invoked' = invoked \cup {s}
    /\ IF cacheOn
       THEN /\ objs' = IF dry_run THEN objs
                       ELSE [objs EXCEPT ![s] = content[s]]
            /\ pc' = [pc EXCEPT ![s] = "record"]
            /\ UNCHANGED <<localObjs, res, buf, n0>>
       ELSE /\ localObjs' = IF dry_run THEN localObjs
                            ELSE [localObjs EXCEPT ![s] = TRUE]
            /\ Return(s, "obj")
            /\ UNCHANGED objs
    /\ UNCHANGED locked
    /\ objCmd' = IF cacheOn /\ ~dry_run
                 THEN [objCmd EXCEPT ![s] = compile_cmd(args)]
                 ELSE objCmd
    /\ UNCHANGED <<confVars, poolVars, runVars, args, procVars, objVars>>
    /\ UNCHANGED <<cfail, nonzero, content, cacheDir, objsDir, cacheFile, cacheText, exe,
                   cache_data, mainVars, builds, recorded, lastOk,
                   linked, executed, ioFailed, op, objPaths, reported>>

\* A failing compile that records the source all the same.
JobCompileFail_records(s) ==
    /\ pc[s] = "run"
    /\ ~dry_run
    /\ invoked' = invoked \cup {s}
    /\ cfail' = cfail \cup {s}
    /\ \E cause \in Causes :
          nonzero' = IF cause = "nonzero" THEN nonzero \cup {s} ELSE nonzero
    /\ cache_data' = update_cache(cache_data, s, content[s])
    /\ Return(s, "None")
    /\ UNCHANGED sideVars
    /\ UNCHANGED <<fsVars, mainVars, builds, recorded, lastOk, linked,
                   executed, ioFailed, op, objPaths, reported>>

\* run_command raises (CompilationError on a non-zero exit, ExecutionError
\* when the compiler is not found); the handler returns None.
JobCompileFail(s) ==
    /\ pc[s] = "run"
    /\ ~dry_run
    /\ invoked' = invoked \cup {s}
    /\ cfail' = cfail \cup {s}
    /\ \E cause \in Causes :
          nonzero' = IF cause = "nonzero" THEN nonzero \cup {s} ELSE nonzero
    /\ Return(s, "None")
    /\ UNCHANGED sideVars
    /\ UNCHANGED <<fsVars, cache_data, mainVars, builds, recorded,
                   lastOk, linked, executed, ioFailed, op, objPaths, reported>>

\* cache.update_cache(source): hash the file, assign the dict item.
JobRecord(s) ==
    /\ pc[s] = "record"
    /\ cache_data' = update_cache(cache_data, s, content[s])
    /\ recorded' = [recorded EXCEPT ![s] = <<content[s]>>]
    /\ lastOk' = IF dry_run THEN lastOk
                 ELSE [lastOk EXCEPT ![s] = <<content[s]>>]
    /\ pc' = [pc EXCEPT ![s] = "save"]
    /\ UNCHANGED sideVars
    /\ UNCHANGED <<fsVars, res, buf, n0, mainVars, builds, invoked, cfail, nonzero,
                   linked, executed, ioFailed, op, objPaths, reported>>

\* _save_cache with a non-empty table: create the directory, open the table
\* file for writing (which truncates it) and start json.dump's iteration
\* over the dict.
JobSaveOpen(s) ==
    /\ pc[s] = "save"
    /\ cache_data # <<>>
    /\ cacheDir' = TRUE
    /\ cacheFile' = TRUE
    /\ cacheText' = <<>>
    /\ n0' = [n0 EXCEPT ![s] = Len(cache_data)]
    /\ pc' = [pc EXCEPT ![s] = "dump"]
    /\ UNCHANGED locked
    /\ UNCHANGED sideVars
    /\ UNCHANGED <<content, objsDir, objs, localObjs, exe, cache_data, res,
                   buf, mainVars, histVars>>

\* _save_cache cannot create the directory or open the file: the OSError is
\* ignored, update_cache returns and the job returns its object.
JobSaveOpenFail(s) ==
    /\ pc[s] = "save"
    /\ ioFailed' = TRUE
    /\ Return(s, "obj")
    /\ UNCHANGED sideVars
    /\ UNCHANGED <<fsVars, cache_data, mainVars, builds, invoked, cfail, nonzero,
                   recorded, lastOk, linked, executed, op, objPaths, reported>>

\* One step of json.dump's loop over the live dict.  The dict iterator
\* raises RuntimeError when the dict changed size since the loop began; the
\* with-block then closes the file, which writes what was buffered, and the
\* exception leaves update_cache: the handler returns None.
JobDump(s) ==
    /\ pc[s] = "dump"
    /\ IF Len(cache_data) # n0[s]
       THEN /\ cacheText' = WriteAt0(buf[s], cacheText)
            /\ Return(s, "None")
       ELSE /\ buf' = [buf EXCEPT ![s] =
                  IF Len(buf[s]) < n0[s]
                  THEN Append(buf[s], cache_data[Len(buf[s]) + 1])
                  ELSE Append(buf[s], EndToken)]
            /\ pc' = [pc EXCEPT ![s] =
                  IF Len(buf[s]) < n0[s] THEN "dump" ELSE "close"]
            /\ UNCHANGED <<cacheText, res, n0>>
    /\ UNCHANGED locked
    /\ UNCHANGED sideVars
    /\ UNCHANGED <<content, cacheDir, objsDir, cacheFile, objs, localObjs,
                   exe, cache_data, mainVars, builds, invoked, cfail, nonzero,
                   recorded, lastOk, linked, executed, ioFailed, op, objPaths, reported>>

\* The with-block closes the file: the buffered text reaches the file at
\* offset 0.  update_cache returns and the job returns its object.
JobSaveClose(s) ==
    /\ pc[s] = "close"
    /\ cacheText' = WriteAt0(buf[s], cacheText)
    /\ Return(s, "obj")
    /\ UNCHANGED locked
    /\ UNCHANGED sideVars
    /\ UNCHANGED <<content, cacheDir, objsDir, cacheFile, objs, localObjs,
                   exe, cache_data, mainVars, builds, invoked, cfail, nonzero,
                   recorded, lastOk, linked, executed, ioFailed, op, objPaths, reported>>

\* ------------------------------------------------ _handle_multi_c_family
AllCollected == \A s \in Sources : collected[s]

\* obj_file of _compile_object_file for source s in the running invocation.
ObjPath(s) ==
    IF cacheOn THEN get_object_path(AbsPath(s)) ELSE local_object_path(s)
ExePath == <<"exe", "main">>

\* A constructor that creates the object directory at once.
BuildStart_eager(c, k, d) ==
    /\ phase = "idle"
    /\ builds' = builds + 1
    /\ cacheOn' = c
    /\ keep' = k
    /\ dry_run' = d
    /\ cache_data' = IF c THEN load_cache(cacheFile, cacheText) ELSE <<>>
    /\ cacheDir' = (cacheDir \/ c)
    /\ objsDir' = (objsDir \/ c)
    /\ phase' = "compiling"
    /\ pc' = [s \in Sources |-> "queued"]
    /\ UNCHANGED locked
    /\ UNCHANGED sideVars
    /\ UNCHANGED <<content, cacheFile, cacheText, objs, localObjs, exe, res,
                   buf, n0, collected, object_files, failed, output_files,
                   error, invoked, cfail, nonzero, recorded, lastOk, linked,
                   executed, ioFailed, op, objPaths, reported>>

\* main(): construct the runner (and with it the CacheManager, which loads
\* the table file), then compile_and_run submits one job per source.
BuildStart(c, k, d) ==
    /\ phase = "idle"
    /\ builds' = builds + 1
    /\ cacheOn' = c
    /\ keep' = k
    /\ dry_run' = d
    /\ cache_data' = IF c THEN load_cache(cacheFile, cacheText) ELSE <<>>
    /\ phase' = "compiling"
    /\ pc' = [s \in Sources |-> "queued"]
    /\ UNCHANGED sideVars
    /\ UNCHANGED <<fsVars, res, buf, n0, collected, object_files, failed,
                   output_files, error, invoked, cfail, nonzero, recorded, lastOk,
                   linked, executed, ioFailed, op, objPaths, reported>>

\* The as_completed loop without the else branch: a None result is dropped.
Collect_ignores_failure(s) ==
    /\ phase = "compiling"
    /\ pc[s] = "done"
    /\ ~collected[s]
    /\ collected' = [collected EXCEPT ![s] = TRUE]
    /\ object_files' = IF res[s] = "obj"
                       THEN Append(object_files, ObjPath(s))
                       ELSE object_files
    /\ reported' = IF res[s] = "raised" THEN reported \cup {s} ELSE reported
    /\ UNCHANGED sideVars
    /\ UNCHANGED <<fsVars, cache_data, jobVars, phase, cacheOn, keep, dry_run, failed,
                   output_files, error, builds, invoked, cfail, nonzero,
                   recorded, lastOk, linked, executed, ioFailed, op, objPaths>>

\* The as_completed loop registering every object, cached ones too.
Collect_registers_always(s) ==
    /\ phase = "compiling"
    /\ pc[s] = "done"
    /\ ~collected[s]
    /\ collected' = [collected EXCEPT ![s] = TRUE]
    /\ IF res[s] = "obj"
       THEN /\ object_files' = Append(object_files, ObjPath(s))
            /\ output_files' = Append(output_files, ObjPath(s))
            /\ UNCHANGED failed
       ELSE /\ failed' = TRUE
            /\ UNCHANGED <<object_files, output_files>>
    /\ reported' = IF res[s] = "raised" THEN reported \cup {s} ELSE reported
    /\ UNCHANGED sideVars
    /\ UNCHANGED <<fsVars, cache_data, jobVars, phase, cacheOn, keep, dry_run,
                   error, builds, invoked, cfail, nonzero,
                   recorded, lastOk, linked, executed, ioFailed, op, objPaths>>

\* A loop that passes on to the linker only the objects built in this run.
Collect_fresh_only(s) ==
    /\ phase = "compiling"
    /\ pc[s] = "done"
    /\ ~collected[s]
    /\ collected' = [collected EXCEPT ![s] = TRUE]
    /\ IF res[s] = "obj"
       THEN /\ object_files' = IF s \in invoked
                                THEN Append(object_files, ObjPath(s))
                                ELSE object_files
            /\ output_files' = IF cacheOn THEN output_files
                               ELSE Append(output_files, ObjPath(s))
            /\ UNCHANGED failed
       ELSE /\ failed' = TRUE
            /\ UNCHANGED <<object_files, output_files>>
    /\ reported' = IF res[s] = "raised" THEN reported \cup {s} ELSE reported
    /\ UNCHANGED sideVars
    /\ UNCHANGED <<fsVars, cache_data, jobVars, phase, cacheOn, keep, dry_run, error,
                   builds, invoked, cfail, nonzero,
                   recorded, lastOk, linked, executed, ioFailed, op, objPaths>>

\* One turn of the as_completed loop, for a finished job.
Collect(s) ==
    /\ phase = "compiling"
    /\ pc[s] = "done"
    /\ ~collected[s]
    /\ collected' = [collected EXCEPT ![s] = TRUE]
    /\ IF res[s] = "obj"
       THEN /\ object_files' = Append(object_files, ObjPath(s))
            /\ output_files' = IF cacheOn THEN output_files
                               ELSE Append(output_files, ObjPath(s))
            /\ UNCHANGED failed
       ELSE /\ failed' = TRUE
            /\ UNCHANGED <<object_files, output_files>>
    /\ reported' = IF res[s] = "raised" THEN reported \cup {s} ELSE reported
    /\ UNCHANGED sideVars
    /\ UNCHANGED <<fsVars, cache_data, jobVars, phase, cacheOn, keep, dry_run, error,
                   builds, invoked, cfail, nonzero,
                   recorded, lastOk, linked, executed, ioFailed, op, objPaths>>

\* Raising from inside the loop, at the first failure seen.
JoinRaise_early ==
    /\ phase = "compiling"
    /\ failed
    /\ phase' = "failed"
    /\ error' = compile_phase_error
    /\ UNCHANGED sideVars
    /\ UNCHANGED <<fsVars, cache_data, jobVars, cacheOn, keep, dry_run, collected,
                   object_files, failed, output_files, histVars>>

\* The loop and the executor's with-block are over and a job failed:
\* raise ExecutionError("Build failed during compilation phase.").
JoinRaise ==
    /\ phase = "compiling"
    /\ AllCollected
    /\ failed
    /\ phase' = "failed"
    /\ error' = compile_phase_error
    /\ UNCHANGED sideVars
    /\ UNCHANGED <<fsVars, cache_data, jobVars, cacheOn, keep, dry_run, collected,
                   object_files, failed, output_files, histVars>>

\* Linking as soon as one object is there, without the barrier.
LinkStart_early ==
    /\ phase = "compiling"
    /\ object_files # <<>>
    /\ ~failed
    /\ phase' = "linking"
    /\ linked' = TRUE
    /\ UNCHANGED sideVars
    /\ UNCHANGED <<fsVars, cache_data, jobVars, cacheOn, keep, dry_run, collected,
                   object_files, failed, output_files, error, builds,
                   invoked, cfail, nonzero, recorded, lastOk, executed, ioFailed, op, objPaths, reported>>

\* Registering the executable before the link command has run.
LinkStart_registers_first ==
    /\ phase = "compiling"
    /\ AllCollected
    /\ ~failed
    /\ phase' = "linking"
    /\ linked' = TRUE
    /\ output_files' = Append(output_files, ExePath)
    /\ UNCHANGED sideVars
    /\ UNCHANGED <<fsVars, cache_data, jobVars, cacheOn, keep, dry_run,
                   collected, object_files, failed, error, builds, invoked,
                   cfail, nonzero, recorded, lastOk, executed, ioFailed, op,
                   objPaths, reported>>

\* No job failed: run_command(link_cmd, compiling=True) starts.
LinkStart ==
    /\ phase = "compiling"
    /\ AllCollected
    /\ ~failed
    /\ phase' = "linking"
    /\ linked' = TRUE
    /\ UNCHANGED sideVars
    /\ UNCHANGED <<fsVars, cache_data, jobVars, cacheOn, keep, dry_run, collected,
                   object_files, failed, output_files, error, builds,
                   invoked, cfail, nonzero, recorded, lastOk, executed, ioFailed, op, objPaths, reported>>

\* A link step that runs the binary without registering it first.
LinkOk_registers_nothing ==
    /\ phase = "linking"
    /\ exe' = (exe \/ ~dry_run)
    /\ phase' = "exec"
    /\ UNCHANGED locked
    /\ UNCHANGED sideVars
    /\ UNCHANGED <<content, cacheDir, objsDir, cacheFile, cacheText, objs,
                   localObjs, cache_data, jobVars, cacheOn, keep, dry_run, collected,
                   object_files, failed, output_files, error, histVars>>

\* run_command(link_cmd) returns True (the link command exited 0, or it was
\* only printed in a dry run): the executable is registered in output_files.
LinkOk ==
    /\ phase = "linking"
    /\ exe' = (exe \/ ~dry_run)
    /\ output_files' = Append(output_files, ExePath)
    /\ phase' = "exec"
    /\ UNCHANGED locked
    /\ UNCHANGED sideVars
    /\ UNCHANGED <<content, cacheDir, objsDir, cacheFile, cacheText, objs,
                   localObjs, cache_data, jobVars, cacheOn, keep, dry_run, collected,
                   object_files, failed, error, histVars>>

\* The link command fails for the given cause: run_command raises.
LinkFail(cause) ==
    /\ phase = "linking"
    /\ ~dry_run
    /\ phase' = "failed"
    /\ error' = run_command_error(TRUE, cause)
    /\ nonzero' = IF cause = "nonzero" THEN nonzero \cup {"link"} ELSE nonzero
    /\ UNCHANGED sideVars
    /\ UNCHANGED <<fsVars, cache_data, jobVars, cacheOn, keep, dry_run,
                   collected, object_files, failed, output_files, builds,
                   invoked, cfail, recorded, lastOk, linked, executed,
                   ioFailed, op, objPaths, reported>>

\* _execute_binary: the binary runs and exits 0 (or its command is only
\* printed in a dry run).
ExecOk ==
    /\ phase = "exec"
    /\ executed' = TRUE
    /\ phase' = "ran"
    /\ UNCHANGED sideVars
    /\ UNCHANGED <<fsVars, cache_data, jobVars, cacheOn, keep, dry_run, collected,
                   object_files, failed, output_files, error, builds,
                   invoked, cfail, nonzero, recorded, lastOk, linked, ioFailed, op, objPaths, reported>>

\* _execute_binary: the binary exits non-zero, run_command raises
\* ExecutionError.
ExecFail ==
    /\ phase = "exec"
    /\ ~dry_run
    /\ executed' = TRUE
    /\ phase' = "failed"
    /\ error' = run_command_error(FALSE, "nonzero")
    /\ UNCHANGED sideVars
    /\ UNCHANGED <<fsVars, cache_data, jobVars, cacheOn, keep, dry_run, collected,
                   object_files, failed, output_files, builds,
                   invoked, cfail, nonzero, recorded, lastOk, linked, ioFailed, op, objPaths, reported>>

\* Elements of a sequence.
Range(q) == {q[i] : i \in DOMAIN q}

\* f.exists() for the paths an invocation registers.
Exists(f) ==
    \/ f = ExePath /\ exe
    \/ \E s \in Sources : f = local_object_path(s) /\ localObjs[s]
    \/ \E s \in Sources : f = get_object_path(AbsPath(s)) /\ objs[s] # NoObject

\* A loop that ends at the first unlink the operating system refuses.
cleanup_unlinks_until_failure(paths, lk) ==
    {paths[i] : i \in {j \in DOMAIN paths : \A k \in 1..j : paths[k] \notin lk}}

\* The paths the loop of cleanup() removes: each of paths in turn,
\* an OSError of one unlink being caught and the loop going on.
cleanup_unlinks(paths, lk) ==
    {paths[i] : i \in {j \in DOMAIN paths : paths[j] \notin lk}}

\* The paths cleanup() removes in the current state.
Swept ==
    IF keep \/ dry_run THEN {} ELSE cleanup_unlinks(output_files, locked)

\* main()'s finally: runner.cleanup() deletes the registered files unless
\* keep was asked or the run is a dry run; then the process ends and its
\* objects are gone.
Cleanup ==
    /\ phase \in {"failed", "ran"}
    /\ exe' = (exe /\ ExePath \notin Swept)
    /\ localObjs' = [s \in Sources |->
           localObjs[s] /\ local_object_path(s) \notin Swept]
    /\ objs' = [s \in Sources |->
           IF get_object_path(AbsPath(s)) \in Swept THEN NoObject ELSE objs[s]]
    /\ phase' = "idle"
    /\ cache_data' = <<>>
    /\ pc' = [s \in Sources |-> "none"]
    /\ res' = [s \in Sources |-> "pending"]
    /\ collected' = [s \in Sources |-> FALSE]
    /\ object_files' = <<>>
    /\ failed' = FALSE
    /\ output_files' = <<>>
    /\ error' = "none"
    /\ invoked' = {}
    /\ cfail' = {}
    /\ nonzero' = {}
    /\ recorded' = [s \in Sources |-> <<>>]
    /\ linked' = FALSE
    /\ executed' = FALSE
    /\ reported' = {}
    /\ UNCHANGED locked
    /\ UNCHANGED sideVars
    /\ UNCHANGED <<content, cacheDir, objsDir, cacheFile, cacheText, buf, n0,
                   cacheOn, keep, dry_run, builds, lastOk, ioFailed, op,
                   objPaths>>

\* ------------------------------------------------------- the environment
\* The operating system starts to refuse the unlink of a registered file
\* (the file is held open, its directory has become read-only).
Lock(f) ==
    /\ phase \in {"ran", "failed"}
    /\ f \in Range(output_files)
    /\ Exists(f)
    /\ f \notin locked
    /\ locked' = locked \cup {f}
    /\ UNCHANGED sideVars
    /\ UNCHANGED <<content, cacheDir, objsDir, cacheFile, cacheText, objs,
                   localObjs, exe, cache_data, jobVars, mainVars, histVars>>

\* Someone else deletes a registered file before cleanup() comes to it.
Vanish(f) ==
    /\ phase \in {"ran", "failed"}
    /\ f \in Range(output_files)
    /\ Exists(f)
    /\ f \notin locked
    /\ exe' = (exe /\ f # ExePath)
    /\ localObjs' = [s \in Sources |-> localObjs[s] /\ f # local_object_path(s)]
    /\ objs' = [s \in Sources |->
           IF f = get_object_path(AbsPath(s)) THEN NoObject ELSE objs[s]]
    /\ UNCHANGED sideVars
    /\ UNCHANGED <<content, cacheDir, objsDir, cacheFile, cacheText, locked,
                   cache_data, jobVars, mainVars, histVars>>

\* The user rewrites a source file between two invocations.
Edit(s, c) ==
    /\ phase = "idle"
    /\ c # content[s]
    /\ content' = [content EXCEPT ![s] = c]
    /\ UNCHANGED locked
    /\ UNCHANGED sideVars
    /\ UNCHANGED <<cacheDir, objsDir, cacheFile, cacheText, objs, localObjs,
                   exe, cache_data, jobVars, mainVars, histVars>>

\* Another process rewrites a source file while the jobs are running.
EditLive(s, c) ==
    /\ phase = "compiling"
    /\ c # content[s]
    /\ content' = [content EXCEPT ![s] = c]
    /\ UNCHANGED locked
    /\ UNCHANGED sideVars
    /\ UNCHANGED <<cacheDir, objsDir, cacheFile, cacheText, objs, localObjs,
                   exe, cache_data, jobVars, mainVars, histVars>>

\* Another process deletes a source file while the jobs are running.
Delete(s) ==
    /\ phase = "compiling"
    /\ content[s] # Missing
    /\ content' = [content EXCEPT ![s] = Missing]
    /\ UNCHANGED locked
    /\ UNCHANGED sideVars
    /\ UNCHANGED <<cacheDir, objsDir, cacheFile, cacheText, objs, localObjs,
                   exe, cache_data, jobVars, mainVars, histVars>>

\* The body of CacheManager.clear: the table is emptied, the table file
\* unlinked if it exists, and the cache root removed if it exists and is
\* then empty (the object directory, when it exists, is an entry of it).
clear_fs ==
    /\ cache_data' = <<>>
    /\ cacheFile' = FALSE
    /\ cacheText' = <<>>
    /\ cacheDir' = (cacheDir /\ objsDir)

\* CacheManager().clear() between two invocations: the table file is
\* unlinked and the cache root removed when it is then empty.
clear ==
    /\ phase = "idle"
    /\ cacheFile \/ cacheDir
    /\ clear_fs
    /\ lastOk' = [s \in Sources |-> <<>>]
    /\ UNCHANGED locked
    /\ UNCHANGED sideVars
    /\ UNCHANGED <<content, objsDir, objs, localObjs, exe, jobVars, mainVars,
                   builds, invoked, cfail, nonzero, recorded, linked, executed, ioFailed, op, objPaths, reported>>

\* ------------------------------------------- CacheManager, called directly
\* The calls tests/test_cache_lifecycle.py makes on a CacheManager, each a
\* whole method run by a single thread.

\* A save that always writes the table, an empty one as an empty object.
save_cache_always_writes(d) ==
    /\ cacheDir' = TRUE
    /\ cacheFile' = TRUE
    /\ cacheText' = Append(d, EndToken)

\* CacheManager._save_cache with table d, run alone: an empty table removes
\* the table file and prunes the cache root when that is empty; any other
\* table is written whole.
save_cache(d) ==
    IF d = <<>>
    THEN /\ cacheFile' = FALSE
         /\ cacheText' = <<>>
         /\ cacheDir' = (cacheDir /\ objsDir)
    ELSE /\ cacheDir' = TRUE
         /\ cacheFile' = TRUE
         /\ cacheText' = Append(d, EndToken)

\* CacheManager(): a new instance loads the table file; nothing is written.
CmConstruct ==
    /\ phase = "idle"
    /\ cache_data' = load_cache(cacheFile, cacheText)
    /\ op' = "init"
    /\ UNCHANGED sideVars
    /\ UNCHANGED <<fsVars, jobVars, mainVars, builds, invoked, cfail, nonzero,
                   recorded, lastOk, linked, executed, ioFailed, objPaths, reported>>

\* cache_mgr.get_object_path(p): creates the object directory when it does
\* not exist and returns the object path.
CmGetObjectPath(p) ==
    /\ phase = "idle"
    /\ cacheDir' = TRUE
    /\ objsDir' = TRUE
    /\ LET r == [path |-> get_object_path(p), bytes |-> BytesAt(p)]
       IN  objPaths' = [objPaths EXCEPT ![p] =
                           IF @ = <<>> THEN <<r, r>> ELSE <<@[1], r>>]
    /\ op' = "get_object_path"
    /\ UNCHANGED reported
    /\ UNCHANGED locked
    /\ UNCHANGED sideVars
    /\ UNCHANGED <<content, cacheFile, cacheText, objs, localObjs, exe,
                   cache_data, jobVars, mainVars, builds, invoked, cfail,
                   nonzero, recorded, lastOk, linked, executed, ioFailed>>

\* cache_mgr.update_cache(s): the dict assignment, then _save_cache.
CmUpdateCache(s) ==
    /\ phase = "idle"
    /\ cache_data' = update_cache(cache_data, s, content[s])
    /\ save_cache(cache_data')
    /\ op' = "update_cache"
    /\ UNCHANGED locked
    /\ UNCHANGED sideVars
    /\ UNCHANGED <<content, objsDir, objs, localObjs, exe, jobVars, mainVars,
                   builds, invoked, cfail, nonzero, recorded, lastOk, linked,
                   executed, ioFailed, objPaths, reported>>

\* cache_mgr.cache_data = {}: the caller empties the table in memory.
CmSetEmpty ==
    /\ phase = "idle"
    /\ cache_data # <<>>
    /\ cache_data' = <<>>
    /\ op' = "set_empty"
    /\ UNCHANGED sideVars
    /\ UNCHANGED <<fsVars, jobVars, mainVars, builds, invoked, cfail, nonzero,
                   recorded, lastOk, linked, executed, ioFailed, objPaths, reported>>

\* cache_mgr._save_cache(), on whatever the table is.
CmSave ==
    /\ phase = "idle"
    /\ save_cache(cache_data)
    /\ op' = "save"
    /\ UNCHANGED locked
    /\ UNCHANGED sideVars
    /\ UNCHANGED <<content, objsDir, objs, localObjs, exe, cache_data,
                   jobVars, mainVars, builds, invoked, cfail, nonzero,
                   recorded, lastOk, linked, executed, ioFailed, objPaths, reported>>

\* cache_mgr.clear(), whatever exists on disk.
CmClear ==
    /\ phase = "idle"
    /\ clear_fs
    /\ op' = "clear"
    /\ UNCHANGED locked
    /\ UNCHANGED sideVars
    /\ UNCHANGED <<content, objsDir, objs, localObjs, exe, jobVars, mainVars,
                   builds, invoked, cfail, nonzero, recorded, lastOk, linked,
                   executed, ioFailed, objPaths, reported>>

\* A compiler run by the caller writes the object of s into the object
\* directory.
\* What a direct caller sees of is_changed: its name and its result.
IsChangedOps == {"is_changed: True", "is_changed: False"}

\* An is_changed that records the hash it has just computed.
CmIsChanged_records(s) ==
    /\ phase = "idle"
    /\ op' = IF is_changed(cache_data, s, content[s])
             THEN "is_changed: True" ELSE "is_changed: False"
    /\ cache_data' = update_cache(cache_data, s, content[s])
    /\ save_cache(cache_data')
    /\ UNCHANGED <<content, objsDir, objs, localObjs, exe, locked, jobVars,
                   mainVars, builds, invoked, cfail, nonzero, recorded, lastOk,
                   linked, executed, ioFailed, objPaths, reported, sideVars>>

\* A caller asks is_changed(s): the file is hashed and the hash compared
\* with the entry of the table.
CmIsChanged(s) ==
    /\ phase = "idle"
    /\ op' = IF is_changed(cache_data, s, content[s])
             THEN "is_changed: True" ELSE "is_changed: False"
    /\ UNCHANGED <<fsVars, cache_data, jobVars, mainVars, builds, invoked,
                   cfail, nonzero, recorded, lastOk, linked, executed, ioFailed,
                   objPaths, reported, sideVars>>

CompilerWrites(s) ==
    /\ phase = "idle"
    /\ objsDir
    /\ objs[s] = NoObject
    /\ objs' = [objs EXCEPT ![s] = content[s]]
    /\ UNCHANGED locked
    /\ UNCHANGED sideVars
    /\ UNCHANGED <<content, cacheDir, objsDir, cacheFile, cacheText,
                   localObjs, exe, cache_data, jobVars, mainVars, histVars>>

\* The steps of the pool jobs of one invocation.
Jobs ==
    \/ \E s \in Sources : JobCheck(s)
    \/ \E s \in Sources : JobCompileOk(s)
    \/ \E s \in Sources : JobCompileFail(s)
    \/ \E s \in Sources : JobRecord(s)
    \/ \E s \in Sources : JobSaveOpen(s)
    \/ \E s \in Sources : JobDump(s)
    \/ \E s \in Sources : JobSaveClose(s)

\* The steps of the main thread of one invocation after its start.
Main ==
    \/ \E s \in Sources : Collect(s)
    \/ JoinRaise
    \/ LinkStart
    \/ LinkOk
    \/ \E cause \in Causes : LinkFail(cause)
    \/ ExecOk
    \/ ExecFail
    \/ Cleanup

\* ----------------------------------- configuration and file dispatch
\* main() constructs the runner for the files fs of the command line:
\* BaseRunner.__init__ loads and validates Run.toml, here parsed to d.
LoadConfig(d, fs) ==
    /\ loaded = "no"
    /\ data' = d
    /\ loaded' = validate(d)
    /\ files' = fs
    /\ UNCHANGED <<issued, raised, resolved, buildVars, poolVars, extVars>>

\* compile_and_run without multi: _handle_single_file on the next file.
\* ok: the command handed to run_command succeeds.
HandleSingleFile(ok) ==
    /\ loaded = "ok"
    /\ files # <<>>
    /\ raised = "none"
    /\ resolved.rule \notin {"c_family", "java"}
    /\ LET f == Head(files)
           ext == lower(f.suffix)
           i == get_language_by_extension(data, ext)
           err == IF ext \in builtin_ext THEN "none"
                  ELSE IF i = 0 THEN "ConfigError: unsupported extension"
                  ELSE handle_custom_language_error(data.langs[i])
       IN  /\ resolved' = [file |-> f,
                           rule |-> IF ext \in builtin_ext THEN "builtin"
                                    ELSE IF i = 0 THEN "unsupported"
                                    ELSE data.langs[i].name]
           /\ issued' = IF err = "none" THEN issued \cup {f} ELSE issued
           /\ raised' = IF err # "none" THEN err
                         ELSE IF ok THEN "none" ELSE "ExecutionError"
    /\ files' = Tail(files)
    /\ UNCHANGED <<data, loaded, buildVars, poolVars, extVars>>

\* compile_and_run with multi: _handle_multi_compile takes all the files,
\* builds the C family if the batch has a C-family source, else the Java
\* sources, else raises ConfigError.
HandleMultiCompile ==
    /\ loaded = "ok"
    /\ files # <<>>
    /\ raised = "none"
    /\ resolved = NoRule
    /\ LET c_sources == {f \in Range(files) : f.suffix \in c_family_ext}
           java_sources == {f \in Range(files) : f.suffix \in java_ext}
       IN  /\ resolved' = [file |-> Head(files),
                           rule |-> IF c_sources # {} THEN "c_family"
                                    ELSE IF java_sources # {} THEN "java"
                                    ELSE "no_family"]
           /\ issued' = IF c_sources # {} THEN c_sources ELSE java_sources
           /\ raised' = IF c_sources = {} /\ java_sources = {}
                         THEN "ConfigError: no supported files" ELSE "none"
    /\ UNCHANGED <<data, loaded, files, buildVars, poolVars, extVars>>

\* main() returns and the process ends.
Exit ==
    /\ \/ loaded = "ValueError"
       \/ loaded = "ok" /\ (files = <<>> \/ raised # "none" \/ resolved.rule \in {"c_family", "java"})
    /\ data' = NoData
    /\ loaded' = "no"
    /\ files' = <<>>
    /\ issued' = {}
    /\ raised' = "none"
    /\ resolved' = NoRule
    /\ UNCHANGED <<buildVars, poolVars, extVars>>

\* ------------------------------------------------------ the thread pool
\* os.cpu_count() returned None.
NoCpu == 0
CpuCounts == {NoCpu, 1, 28, 64}

\* A pool as large as the machine allows, without the cap.
max_workers_no_cap(cpu) == (IF cpu = NoCpu THEN 1 ELSE cpu) + 4

\* max_workers = min(32, (os.cpu_count() or 1) + 4)
max_workers(cpu) ==
    LET n == (IF cpu = NoCpu THEN 1 ELSE cpu) + 4
    IN  IF n < 32 THEN n ELSE 32

\* Jobs submitted that no worker thread has taken yet.
Waiting == submitted - running - finished

\* _handle_multi_c_family opens the pool for a batch of n sources on a
\* machine with c processors.
PoolOpen(c, n) ==
    /\ nsources = 0
    /\ cpu_count' = c
    /\ nsources' = n
    /\ UNCHANGED <<submitted, running, finished, buildVars, confVars, extVars>>

\* The dict comprehension submits the next source.
PoolSubmit ==
    /\ submitted < nsources
    /\ submitted' = submitted + 1
    /\ UNCHANGED <<cpu_count, nsources, running, finished, buildVars, confVars, extVars>>

\* A worker thread of the executor takes a waiting job; the executor has
\* at most max_workers threads, each running one job at a time.
PoolTake ==
    /\ Waiting > 0
    /\ running < max_workers(cpu_count)
    /\ running' = running + 1
    /\ UNCHANGED <<cpu_count, nsources, submitted, finished, buildVars, confVars, extVars>>

\* A job returns and its thread is free again.
PoolReturn ==
    /\ running > 0
    /\ running' = running - 1
    /\ finished' = finished + 1
    /\ UNCHANGED <<cpu_count, nsources, submitted, buildVars, confVars, extVars>>

\* The with block ends: every job has returned and the pool is shut down.
PoolClose ==
    /\ nsources > 0
    /\ finished = nsources
    /\ cpu_count' = 1
    /\ nsources' = 0
    /\ submitted' = 0
    /\ finished' = 0
    /\ UNCHANGED <<running, buildVars, confVars, extVars>>

\* Spec: successive invocations of the tool on the project, the user
\* editing sources between them.  Every invocation has the cache
\* (CompilerRunner.__init__ of core.py always constructs one) and no keep
\* flag; it may be a dry run.
Next ==
    \/ (builds < MaxBuilds /\ \E d \in BOOLEAN : BuildStart(TRUE, FALSE, d))
    \/ Jobs
    \/ Main
    \/ \E s \in Sources, c \in Contents : Edit(s, c)
    \/ clear

Spec == Init /\ [][Next]_vars

\* SpecLive: the first invocation on a fresh project, in an adverse
\* environment: another process rewrites the sources while the jobs run,
\* and the table file may fail to open.
NextLive ==
    \/ (builds = 0 /\ BuildStart(TRUE, FALSE, FALSE))
    \/ Jobs
    \/ \E s \in Sources : JobSaveOpenFail(s)
    \/ Main
    \/ \E s \in Sources, c \in Contents : EditLive(s, c)

SpecLive == Init /\ [][NextLive]_vars

\* SpecTerm: the first invocation on a fresh project with the scheduling
\* the interpreter gives: a pool thread that can take a step, the exit of
\* its compiler included, takes one in the end, and so does the main thread.
\* The table file may fail to open; the sources are not rewritten, since no
\* step of a first invocation depends on the bytes of a source.
JobSteps == Jobs \/ \E s \in Sources : JobSaveOpenFail(s)
NextTerm ==
    \/ (builds = 0 /\ BuildStart(TRUE, FALSE, FALSE))
    \/ JobSteps
    \/ Main

SpecTerm == Init /\ [][NextTerm]_vars /\ WF_vars(JobSteps) /\ WF_vars(Main)

\* SpecCache: a caller drives one CacheManager after another by hand, as
\* the lifecycle tests do; the sources are not rewritten.
NextCache ==
    \/ CmConstruct
    \/ \E p \in Paths : CmGetObjectPath(p)
    \/ \E s \in Sources : CmUpdateCache(s)
    \/ CmSetEmpty
    \/ CmSave
    \/ CmClear
    \/ \E s \in Sources : CmIsChanged(s)
    \/ \E s \in Sources : CompilerWrites(s)

SpecCache == Init /\ [][NextCache]_vars

\* SpecPath: object paths are asked for again and again while the sources
\* are rewritten, entries recorded and new instances constructed.
NextPath ==
    \/ CmConstruct
    \/ \E p \in Paths : CmGetObjectPath(p)
    \/ \E s \in Sources : CmUpdateCache(s)
    \/ \E s \in Sources, c \in Contents : Edit(s, c)

SpecPath == Init /\ [][NextPath]_vars

\* SpecFlags: successive invocations with and without the cache, with and
\* without the keep flag; the sources are not rewritten.
NextFlags ==
    \/ /\ builds < MaxBuilds
       /\ \E c \in BOOLEAN, k \in BOOLEAN : BuildStart(c, k, FALSE)
    \/ Jobs
    \/ Main

SpecFlags == Init /\ [][NextFlags]_vars

\* The paths an invocation can register.
Registrable ==
    {ExePath} \cup {local_object_path(s) : s \in Sources}

\* SpecSweep: the invocations of SpecFlags in an environment that locks or
\* deletes registered files between the end of the run and cleanup().
NextSweep ==
    \/ /\ builds < MaxBuilds
       /\ \E c \in BOOLEAN, k \in BOOLEAN : BuildStart(c, k, FALSE)
    \/ Jobs
    \/ Main
    \/ \E f \in Registrable : Lock(f)
    \/ \E f \in Registrable : Vanish(f)

SpecSweep == Init /\ [][NextSweep]_vars

\* SpecConfig: invocations of the tool on one or two files, with or
\* without --multi, under every Run.toml of Configs.
NextConfig ==
    \/ (loaded = "no" /\ \E d \in Configs, fs \in FileLists : LoadConfig(d, fs))
    \/ \E ok \in BOOLEAN : HandleSingleFile(ok)
    \/ HandleMultiCompile
    \/ Exit

SpecConfig == Init /\ [][NextConfig]_vars

\* SpecPool: batches of up to MaxSources sources on machines of CpuCounts.
NextPool ==
    \/ (nsources = 0 /\ \E c \in CpuCounts, n \in 1..MaxSources : PoolOpen(c, n))
    \/ PoolSubmit
    \/ PoolTake
    \/ PoolReturn
    \/ PoolClose

SpecPool == Init /\ [][NextPool]_vars

\* ------------------------------------------- run_command, called directly
\* A caller sets the runner's dry_run attribute, as tests/test_runner.py does.
SetDryRun(d) ==
    /\ phase = "idle"
    /\ dry_run # d
    /\ dry_run' = d
    /\ UNCHANGED <<fsVars, cache_data, jobVars, histVars, phase, cacheOn, keep,
                   collected, object_files, failed, output_files, error>>
    /\ UNCHANGED sideVars

\* One call of run_command on a command with the given outcome.
RunCommand(compiling, outcome) ==
    /\ phase = "idle"
    /\ lastRun.seq < MaxCalls
    /\ lastRun' = [seq |-> lastRun.seq + 1, dry |-> dry_run,
                   compiling |-> compiling, outcome |-> outcome,
                   result |-> run_command(dry_run, compiling, outcome)]
    /\ spawned' = IF run_command_spawns(dry_run, outcome) THEN spawned + 1
                  ELSE spawned
    /\ UNCHANGED <<buildVars, confVars, poolVars, cmdVars, procVars, objVars>>

\* SpecRun: a caller of run_command alone, with every kind of command.
NextRun ==
    \/ \E d \in BOOLEAN : SetDryRun(d)
    \/ \E compiling \in BOOLEAN, outcome \in Outcomes :
            RunCommand(compiling, outcome)

SpecRun == Init /\ [][NextRun]_vars

\* ----------------------------------------------- successive command lines
\* main() parses the command line of the next invocation.
ParseArgs(a) ==
    /\ phase = "idle"
    /\ builds < MaxBuilds
    /\ a # args
    /\ args' = a
    /\ UNCHANGED <<buildVars, confVars, poolVars, runVars, objCmd, procVars, objVars>>

\* SpecCmd: successive invocations with the cache, each under one of
\* CommandLines; the sources are not rewritten.
NextCmd ==
    \/ \E a \in CommandLines : ParseArgs(a)
    \/ (builds < MaxBuilds /\ BuildStart(TRUE, FALSE, FALSE))
    \/ Jobs
    \/ Main

SpecCmd == Init /\ [][NextCmd]_vars

\* ----------------------------------------------------------------- main()
\* A process starts: main() constructs the runner and takes a branch.  With
\* files, with -L and files found, and with files typed at the prompt it
\* calls compile_and_run; with -L and nothing found it raises ConfigError;
\* with a Cargo.toml it runs cargo and returns; at the prompt an empty line
\* or the end of input goes to the finally clause at once.
MainStart(i) ==
    /\ mpc = "none"
    /\ runs < MaxRuns
    /\ runs' = runs + 1
    /\ branch' = main_branch(i)
    /\ cleanups' = 0
    /\ LET b == main_branch(i)
           calls == \/ b = "files"
                    \/ b = "link_auto" /\ i.found
                    \/ b = "input" /\ i.typed = "files"
       IN  /\ started' = IF calls THEN 1 ELSE 0
           /\ mpc' = IF calls THEN "compile_and_run"
                     ELSE IF b = "input" THEN "finally"
                     ELSE "returned"
           /\ cr' = IF calls THEN "none"
                    ELSE IF b = "link_auto" THEN "ConfigError"
                    ELSE IF b = "input" /\ i.typed = "EOF" THEN "EOFError"
                    ELSE "returned"
           /\ exit_code' = IF calls \/ b = "input" THEN NoExit
                           ELSE IF b = "link_auto" THEN 1
                           ELSE 0
    /\ UNCHANGED <<buildVars, confVars, poolVars, runVars, cmdVars, objVars>>

\* compile_and_run ends with e; control passes to the finally clause.
CompileAndRunEnds(e) ==
    /\ mpc = "compile_and_run"
    /\ cr' = e
    /\ mpc' = "finally"
    /\ UNCHANGED <<runs, branch, started, cleanups, exit_code>>
    /\ UNCHANGED <<buildVars, confVars, poolVars, runVars, cmdVars, objVars>>

\* A main() whose cleanup follows the call instead of standing in a finally
\* clause: it is skipped when the call raised.
Finally_after_success_only ==
    /\ mpc = "finally"
    /\ cleanups' = IF cr = "returned" THEN cleanups + 1 ELSE cleanups
    /\ mpc' = "returning"
    /\ UNCHANGED <<runs, branch, cr, started, exit_code>>
    /\ UNCHANGED <<buildVars, confVars, poolVars, runVars, cmdVars, objVars>>

\* The finally clause of the branch: runner.cleanup().
Finally ==
    /\ mpc = "finally"
    /\ cleanups' = cleanups + 1
    /\ mpc' = "returning"
    /\ UNCHANGED <<runs, branch, cr, started, exit_code>>
    /\ UNCHANGED <<buildVars, confVars, poolVars, runVars, cmdVars, objVars>>

\* main() returns, through its except clauses when something was raised, or
\* the interrupt leaves it.
MainReturn ==
    /\ mpc = "returning"
    /\ exit_code' = main_returns(branch, IF cr = "EOFError" THEN "Exception"
                                         ELSE cr)
    /\ mpc' = "returned"
    /\ UNCHANGED <<runs, branch, cr, started, cleanups>>
    /\ UNCHANGED <<buildVars, confVars, poolVars, runVars, cmdVars, objVars>>

\* sys.exit(exit_code): the process is over.
ProcessEnds ==
    /\ mpc = "returned"
    /\ mpc' = "none"
    /\ UNCHANGED <<runs, branch, cr, started, cleanups, exit_code>>
    /\ UNCHANGED <<buildVars, confVars, poolVars, runVars, cmdVars, objVars>>

\* SpecMain: processes started one after another on every input of Inputs.
MainSteps ==
    \/ \E e \in Endings : CompileAndRunEnds(e)
    \/ Finally
    \/ MainReturn
    \/ ProcessEnds

NextMain ==
    \/ (mpc = "none" /\ \E i \in Inputs : MainStart(i))
    \/ MainSteps

\* main() is sequential code: once compile_and_run has ended, each of its
\* next steps is taken.
SpecMain == Init /\ [][NextMain]_vars /\ WF_vars(MainSteps)

\* ------------------------------------------------ object paths of a batch
\* _handle_multi_c_family is given a batch of two or more sources, with a
\* cache or without one.
BatchOpen(b, c) ==
    /\ batch = {}
    /\ Cardinality(b) >= 2
    /\ batch' = b
    /\ batchCache' = c
    /\ objOf' = {}
    /\ UNCHANGED <<buildVars, confVars, poolVars, runVars, cmdVars, procVars>>

\* The job of one source begins: _compile_object_file computes obj_file.
BatchJob(source) ==
    /\ source \in batch
    /\ \A pr \in objOf : pr[1] # source
    /\ objOf' = objOf \cup {<<source, obj_file(batchCache, source)>>}
    /\ UNCHANGED <<batch, batchCache>>
    /\ UNCHANGED <<buildVars, confVars, poolVars, runVars, cmdVars, procVars>>

\* Every job has begun and the batch is over.
BatchClose ==
    /\ batch # {}
    /\ {pr[1] : pr \in objOf} = batch
    /\ batch' = {}
    /\ objOf' = {}
    /\ UNCHANGED batchCache
    /\ UNCHANGED <<buildVars, confVars, poolVars, runVars, cmdVars, procVars>>

\* SpecObj: batches drawn from BatchFiles, with and without a cache; the
\* jobs begin in any order.
NextObj ==
    \/ (batch = {} /\ \E b \in SUBSET BatchFiles, c \in BOOLEAN : BatchOpen(b, c))
    \/ \E source \in BatchFiles : BatchJob(source)
    \/ BatchClose

SpecObj == Init /\ [][NextObj]_vars

\* SpecGone: successive invocations with the cache while another process
\* deletes source files during the compile phase.
NextGone ==
    \/ (builds < MaxBuilds /\ BuildStart(TRUE, FALSE, FALSE))
    \/ Jobs
    \/ Main
    \/ \E s \in Sources : Delete(s)

SpecGone == Init /\ [][NextGone]_vars

\* ================================================================ claims
AllJobsDone == \A s \in Sources : pc[s] = "done"
AnyJobFailed == \E s \in Sources : res[s] = "None"
InUpdateCache(s) == pc[s] \in {"save", "dump", "close"}

\* The table a new CacheManager would load from the disk now.
DiskTable == load_cache(cacheFile, cacheText)

C2_RebuildExactlyChanged ==
    [][\A s \in Sources :
          (pc[s] = "queued" /\ pc'[s] # "queued" /\ ~dry_run /\ ~ioFailed) =>
              ((pc'[s] = "run") <=>
                  (lastOk[s] = <<>> \/ content[s] # lastOk[s][1]))]_vars

\* C3: the job invokes the compiler iff the source is stale or its object is
\* missing; a cache hit returns the object with no compiler invocation and
\* no change of the table, in memory or on disk.
C3_CompileIffStaleOrNoObject ==
    [][\A s \in Sources :
          (pc[s] = "queued" /\ pc'[s] # "queued" /\ cacheOn) =>
              LET hit == /\ ~is_changed(cache_data, s, content[s])
                         /\ objs[s] # NoObject
              IN  /\ (pc'[s] = "run") <=> ~hit
                  /\ hit => /\ pc'[s] = "done"
                            /\ res'[s] = "obj"
                            /\ invoked' = invoked
                            /\ cache_data' = cache_data
                            /\ cacheFile' = cacheFile
                            /\ cacheText' = cacheText]_vars

\* C3 witness: a job finished with a cache hit (no compiler invocation)
\* next to a job whose source was stale and was compiled.
C3_Witness ==
    \E s, t \in Sources :
        /\ cacheOn
        /\ pc[s] = "done" /\ res[s] = "obj" /\ s \notin invoked
        /\ t \in invoked

\* C4: the step in which the compiler fails for S makes the job return None
\* and changes neither the in-memory table nor the table file, so S is as
\* stale after it as before.
C4_FailedCompileKeepsCache ==
    [][\A s \in Sources :
          (s \in cfail' /\ s \notin cfail) =>
              /\ pc'[s] = "done"
              /\ res'[s] = "None"
              /\ cache_data' = cache_data
              /\ cacheFile' = cacheFile
              /\ cacheText' = cacheText
              /\ (is_changed(cache_data', s, content'[s])
                    <=> is_changed(cache_data, s, content[s]))]_vars

\* C4 witness: a source with a table entry from an earlier invocation was
\* edited, its compile failed, and the job returned None.
C4_Witness ==
    \E s \in Sources :
        /\ s \in cfail /\ pc[s] = "done" /\ res[s] = "None"
        /\ AbsPath(s) \in Keys(cache_data)
        /\ is_changed(cache_data, s, content[s])

\* C5: when a job of the batch failed, the link never runs, no executable
\* is registered, nothing is executed, and once all jobs are in the build
\* ends with the coordinator's build failure.
C5_FailureBlocksLink ==
    AnyJobFailed =>
        /\ ~linked
        /\ ~executed
        /\ ExePath \notin Range(output_files)
        /\ phase \in {"compiling", "failed"}
        /\ (phase = "failed" => error = "ExecutionError")

\* C5 witness: the build failed with one job failed and one succeeded.
C5_Witness ==
    /\ phase = "failed"
    /\ error = "ExecutionError"
    /\ \E s, t \in Sources : res[s] = "None" /\ res[t] = "obj"

\* C6: the coordinator reports a compile-phase failure only when every job
\* of the batch has run to completion and been collected.
C6_NoSiblingCancelled ==
    (phase = "failed" /\ ~linked) =>
        \A s \in Sources :
            /\ pc[s] = "done"
            /\ collected[s]
            /\ res[s] \in {"obj", "None"}
            /\ (res[s] = "obj" => s \in invoked \/ ObjExists(s))

\* C6 witness: the coordinator has already seen a failure while a sibling
\* is still compiling.
C6_Witness ==
    \E s, t \in Sources :
        /\ phase = "compiling"
        /\ failed /\ collected[s] /\ res[s] = "None"
        /\ pc[t] = "run"

\* C7: while the link command runs, and ever after in the invocation, no
\* compile job is pending or in flight.
C7_LinkAfterAllCompiles ==
    (phase \in {"linking", "exec", "ran"} \/ linked) => AllJobsDone /\ AllCollected

\* C7 witness: the link is running after two compiles of this invocation.
C7_Witness ==
    phase = "linking" /\ invoked = Sources

\* C8 (as claimed): at most one job at a time is between the dict
\* assignment of update_cache and the close of the table file.
C8_SingleWriter ==
    Cardinality({s \in Sources : InUpdateCache(s)}) <= 1

\* C9 (as claimed): after the join barrier the table file holds the recorded
\* hash of every source recorded in the batch (no write having failed).
C9_NoLostUpdate ==
    (AllJobsDone /\ ~ioFailed) =>
        \A s \in Sources :
            recorded[s] # <<>> =>
                /\ AbsPath(s) \in Keys(DiskTable)
                /\ Lookup(DiskTable, AbsPath(s)) = get_file_hash(recorded[s][1])

\* C10 (as claimed): the table of a running invocation has a key for P iff
\* P was compiled successfully through the cache since the last clear.
C10_KeyIffCompiled ==
    (phase # "idle" /\ cacheOn /\ ~ioFailed) =>
        \A s \in Sources :
            AbsPath(s) \in Keys(cache_data) <=> lastOk[s] # <<>>

ObjsEmpty == \A s \in Sources : objs[s] = NoObject

\* C12 (as claimed): clear() raises nothing; after it the table is empty in
\* memory, the table file is gone and, when the object directory holds no
\* object, the object directory and the cache root are gone too.
C12_ClearRemovesEmptyDirs ==
    op = "clear" =>
        /\ error = "none"
        /\ cache_data = <<>>
        /\ ~cacheFile
        /\ ObjsEmpty => (~objsDir /\ ~cacheDir)

C15_ObjectPathInjective ==
    \A p, q \in Paths :
        (p # q /\ objPaths[p] # <<>> /\ objPaths[q] # <<>>) =>
            objPaths[p][2].path # objPaths[q][2].path

\* C15 witness: object paths were returned for two files of the same name
\* in different directories.
C15_Witness ==
    \E p, q \in Paths :
        /\ p[1] # q[1] /\ p[2] = q[2]
        /\ objPaths[p] # <<>> /\ objPaths[q] # <<>>
        /\ objPaths[p][2].path # objPaths[q][2].path

\* C16: a local object path is in output_files only in an invocation
\* without the cache, the object path of the cache is never in it, and no
\* step, cleanup with or without keep included, removes a cached object.
C16_CachedObjectsNeverTransient ==
    [][\A s \in Sources :
          /\ get_object_path(AbsPath(s)) \notin Range(output_files')
          /\ local_object_path(s) \in Range(output_files') => ~cacheOn'
          /\ objs[s] # NoObject => objs'[s] # NoObject]_vars

\* C16 witness: an invocation with the cache and without keep is over,
\* cleanup has run and the cached objects are there.
C16_Witness ==
    /\ phase = "idle" /\ builds >= 1
    /\ cacheOn /\ ~keep
    /\ \A s \in Sources : objs[s] # NoObject

C18_ExeOnlyAfterLink ==
    [][/\ (ExePath \notin Range(output_files)
            /\ ExePath \in Range(output_files')) =>
             (phase = "linking" /\ phase' = "exec")
       /\ (~executed /\ executed') =>
             (phase = "exec" /\ linked /\ ExePath \in Range(output_files))
       /\ "link" \in nonzero' =>
             /\ phase' = "failed" /\ error' # "none"
             /\ ExePath \notin Range(output_files')
             /\ ~executed']_vars

\* C18 witness: the link command exited non-zero; the invocation has
\* failed with nothing registered and nothing executed.
C18_Witness ==
    /\ phase = "failed" /\ "link" \in nonzero
    /\ output_files = <<>> /\ ~executed /\ ~exe

\* C19 (as claimed): an invocation in which a compiler command, object
\* compile or link, exited non-zero fails with CompilationError.
C19_NonZeroIsCompilationError ==
    (phase = "failed" /\ nonzero # {}) => error = "CompilationError"

\* C20: a failure of the compile phase always has the kind of
\* compile_phase_error, and a failure by a non-zero exit of the link command
\* never has that kind.
C20_LinkKindDiffers ==
    phase = "failed" =>
        /\ ~linked => error = compile_phase_error
        /\ "link" \in nonzero => error # compile_phase_error

\* C20 witness: the invocation failed by a non-zero exit of the link
\* command, with CompilationError.
C20_Witness ==
    /\ phase = "failed" /\ linked /\ "link" \in nonzero
    /\ error = "CompilationError"
    /\ cfail = {}

\* C21 (as claimed): when the compile phase has failed, every source whose
\* compile failed has been named by an error line of the invocation.
C21_ReportNamesEveryFailed ==
    (phase = "failed" /\ ~linked) => cfail \subseteq reported

\* C22 (as claimed): a job whose compile command succeeded returns its
\* object path, whatever happens to the bookkeeping of the cache.
C22_BookkeepingNeverFailsCompile ==
    \A s \in Sources :
        (pc[s] = "done" /\ s \in invoked /\ s \notin cfail) => res[s] = "obj"

\* C23: in every cleanup() of a run that is not a dry run, with keep false
\* every registered path whose unlink is not refused is gone afterwards,
\* whatever happened to the other paths, and the step ends the invocation
\* normally; with keep true every file is as it was.
C23_SweepBestEffort ==
    [][(phase \in {"ran", "failed"} /\ phase' = "idle" /\ ~dry_run) =>
          IF keep
          THEN exe' = exe /\ localObjs' = localObjs /\ objs' = objs
          ELSE /\ \A f \in Range(output_files) \ locked : ~Exists(f)'
               /\ \A f \in locked : Exists(f)']_vars

\* C23 witness: after the cleanup of a first run without keep, the
\* executable and the object of main.c are still there because their
\* unlink was refused, and the object of lib.c has been deleted.
C23_Witness ==
    /\ phase = "idle" /\ builds = 1 /\ ~keep /\ ~cacheOn
    /\ locked = {ExePath, local_object_path("main.c")}
    /\ exe /\ localObjs["main.c"] /\ ~localObjs["lib.c"]

\* C24 (as claimed): a configuration that Config.__init__ has accepted has
\* no scalar runner or language section, and each of its declared languages
\* is a table with a non-empty extensions list and a non-empty runner.
C24_ValidateRejectsMalformed ==
    loaded = "ok" =>
        /\ data.runner # "scalar"
        /\ data.language # "scalar"
        /\ \A i \in DOMAIN data.langs :
              /\ data.langs[i].table
              /\ data.langs[i].extKind = "list"
              /\ data.langs[i].extensions # <<>>
              /\ data.langs[i].runner \notin {"missing", ""}

\* C25 (as claimed): a malformed declaration, a type that is neither
\* interpreter nor compiler included, is rejected when the configuration
\* is loaded: no accepted configuration declares such a type, and no
\* declaration error is raised once a command of the invocation was issued.
C25_MalformedRejectedAtLoad ==
    /\ loaded = "ok" =>
          \A i \in DOMAIN data.langs :
              data.langs[i].type \in {"missing", "interpreter", "compiler"}
    /\ raised \in {"ConfigError: no runner", "ConfigError: unknown type"} =>
          issued = {}

\* C26 (as claimed): a --multi batch with C-family and Java sources ends
\* with an error and no file of it is compiled.
C26_MixedBatchRejected ==
    (/\ resolved.rule \in {"c_family", "java", "no_family"}
     /\ Len(files) > 0
     /\ \E f \in Range(files) : f.suffix \in c_family_ext
     /\ \E f \in Range(files) : f.suffix \in java_ext
     /\ resolved.file = Head(files)) =>
        (raised # "none" /\ issued = {})

\* C27 (as claimed): a file handled alone is resolved to the built-in rule
\* if its suffix has one, else to the first declared language whose
\* extensions hold the suffix exactly as typed, else ConfigError is raised.
C27_ResolutionOnRawSuffix ==
    resolved.rule \notin {"none", "c_family", "java", "no_family"} =>
        LET sfx == resolved.file.suffix
            i == get_language_by_extension(data, sfx)
        IN  IF sfx \in builtin_ext THEN resolved.rule = "builtin"
            ELSE IF i = 0
                 THEN /\ resolved.rule = "unsupported"
                      /\ raised = "ConfigError: unsupported extension"
            ELSE resolved.rule = data.langs[i].name

\* C28: on a machine whose processor count is known, the jobs running at
\* one moment are never more than min(32, cpu_count + 4), and a job waits
\* only while that many are running.
C28_PoolBounded ==
    cpu_count # NoCpu =>
        /\ cpu_count + 4 <= 32 => running <= cpu_count + 4
        /\ cpu_count + 4 >= 32 => running <= 32

\* C28 witness: on 64 processors 32 jobs run while further jobs of the
\* batch wait for a free worker.
C28_Witness ==
    cpu_count = 64 /\ running = 32 /\ Waiting > 0 /\ nsources > 32

\* C29: the coordinator is past the barrier only when every job has
\* returned, and from the compile phase it always comes to the link or to
\* the build failure.
C29_CoordinatorTerminates ==
    /\ [](phase \in {"linking", "exec", "ran", "failed"} => AllJobsDone)
    /\ (phase = "compiling") ~> (phase \in {"linking", "failed"})

\* C29 witness: the coordinator has left the barrier for the link after
\* the jobs of both sources returned, one of them without having saved.
C29_Witness ==
    phase = "linking" /\ AllJobsDone /\ AllCollected /\ ioFailed

\* C30: a call of is_changed leaves the table in memory, the table file
\* and its text, the cache directories and the objects as they were.
C30_IsChangedOnlyReads ==
    [][(op' \in IsChangedOps /\ objs' = objs) =>
          UNCHANGED <<cache_data, cacheFile, cacheText, cacheDir, objsDir,
                      content>>]_vars

\* C30 witness: is_changed has just answered False on a cache whose table
\* is populated and saved, for one source, while another is not recorded.
C30_Witness ==
    /\ op = "is_changed: False"
    /\ cache_data # <<>> /\ cacheFile /\ cacheDir
    /\ \E s \in Sources : is_changed(cache_data, s, content[s])


\* C31: run_command returns True for exit code 0; a non-zero exit code raises
\* CompilationError when the command is a compiling one and ExecutionError
\* otherwise; a command that is not found raises ExecutionError in both cases.
C31_RunCommandOutcomes ==
    (lastRun.seq > 0 /\ ~lastRun.dry) =>
        /\ lastRun.outcome = "zero" => lastRun.result = "True"
        /\ (lastRun.outcome = "nonzero" /\ lastRun.compiling)
               => lastRun.result = "CompilationError"
        /\ (lastRun.outcome = "nonzero" /\ ~lastRun.compiling)
               => lastRun.result = "ExecutionError"
        /\ lastRun.outcome = "notfound" => lastRun.result = "ExecutionError"

\* A compiling command was not found: ExecutionError was raised.
C31_Witness ==
    /\ lastRun.seq > 0
    /\ ~lastRun.dry
    /\ lastRun.compiling
    /\ lastRun.outcome = "notfound"
    /\ lastRun.result = "ExecutionError"

\* C32: with dry_run set, run_command returns True for every command,
\* compiling or not, and spawns no process.
C32_DryRunSpawnsNothing ==
    [][(lastRun'.seq # lastRun.seq /\ lastRun'.dry)
          => (lastRun'.result = "True" /\ spawned' = spawned)]_vars

\* A dry run was handed a compiling command that would have failed, after a
\* real run had spawned a process.
C32_Witness ==
    /\ lastRun.dry
    /\ lastRun.compiling
    /\ lastRun.outcome = "nonzero"
    /\ lastRun.result = "True"
    /\ spawned = 1
    /\ lastRun.seq = 2


\* C33: at the link step the object list handed to the linker holds exactly
\* one object per source of the batch, cached and freshly built together, and
\* the same set for every order in which the jobs complete.
C33_LinkGetsOneObjectPerSource ==
    phase \in {"linking", "exec"} =>
        /\ Len(object_files) = Cardinality(Sources)
        /\ \A s \in Sources :
              Cardinality({i \in 1..Len(object_files) :
                              object_files[i] = ObjPath(s)}) = 1

\* The link step of a build that reused the object of main.c and rebuilt
\* lib.c, whose job completed first.
C33_Witness ==
    /\ phase = "linking"
    /\ ~dry_run
    /\ invoked = {"lib.c"}
    /\ object_files = <<ObjPath("lib.c"), ObjPath("main.c")>>


\* C34: whenever the table holds a hash for a source and the cached object of
\* that source exists, the object was compiled from bytes of the source with
\* that hash, also when another process rewrites the source between the
\* compiler's read of it and the hashing inside update_cache.
C34_TableHashIsOfCompiledBytes ==
    \A s \in Sources :
        (AbsPath(s) \in Keys(cache_data) /\ objs[s] # NoObject)
            => Lookup(cache_data, AbsPath(s)) = hexdigest(objs[s])


\* C35: whenever _compile_object_file returns a cache hit for a source, the
\* reused object was compiled with the same compiler command, extra flags,
\* preset flags and include directories as the running invocation uses.
C35_HitBuiltBySameCommand ==
    \A s \in Sources :
        (cacheOn /\ pc[s] = "done" /\ res[s] = "obj" /\ s \notin invoked)
            => objCmd[s] = compile_cmd(args)


\* C36: a dry-run invocation changes no persistent state: the cache table
\* gets no new entry in memory or on disk, no cache directory is created and
\* cleanup deletes no file.
C36_DryRunChangesNothing ==
    [][(dry_run /\ phase # "idle") =>
          /\ Keys(cache_data') \subseteq Keys(cache_data)
          /\ UNCHANGED <<cacheDir, objsDir, cacheFile, cacheText>>
          /\ UNCHANGED <<objs, localObjs, exe>>]_vars


\* C37: whenever compile_and_run is started for a file list (files on the
\* command line, files found by -L, files typed at the prompt), cleanup is
\* eventually invoked, and exactly once, whether compile_and_run returned or
\* raised a compile, link, execution or configuration error.
C37_CleanupOnceAfterCompileAndRun ==
    /\ [](cleanups <= 1)
    /\ [](mpc = "compile_and_run" => cleanups = 0)
    /\ (mpc = "compile_and_run") ~> (cleanups = 1)
    /\ []((mpc = "returned" /\ started = 1) => cleanups = 1)

\* A process that found its files by -L, whose compile_and_run raised
\* CompilationError, has called cleanup once and returned 1.
C37_Witness ==
    /\ mpc = "returned"
    /\ branch = "link_auto"
    /\ started = 1
    /\ cr = "CompilationError"
    /\ cleanups = 1
    /\ exit_code = 1


\* C38 (as claimed): the executable is registered before it is executed, and
\* after the cleanup of a run with keep false no executable that the run
\* produced remains on disk, whatever the exit status of the binary.
C38_NoExecutableRemains ==
    /\ [](phase = "exec" => ExePath \in Range(output_files))
    /\ [][(phase \in {"ran", "failed"} /\ phase' = "idle" /\ ~keep
             /\ ExePath \in Range(output_files)) => ~exe']_vars

\* C38 (amended): the executable is registered before it is executed, and
\* after the cleanup of a run with keep false no executable that the run
\* produced remains on disk, whatever the exit status of the binary, unless
\* the operating system refused its deletion.
C38_NoExecutableRemainsUnlessRefused ==
    /\ [](phase = "exec" => ExePath \in Range(output_files))
    /\ [][(phase \in {"ran", "failed"} /\ phase' = "idle" /\ ~keep
             /\ ExePath \in Range(output_files) /\ ExePath \notin locked)
            => ~exe']_vars

\* The binary of a run without keep has exited non-zero: ExecutionError is
\* on its way to main(), and the executable is on disk and registered.
C38_Witness ==
    /\ phase = "failed"
    /\ executed
    /\ error = "ExecutionError"
    /\ ~keep
    /\ exe
    /\ ExePath \in Range(output_files)
    /\ ExePath \notin locked


\* C39: within one build no two compile jobs write the same object path:
\* distinct sources of the batch have distinct object files, with the cache
\* and with the cache disabled, so the linker never gets one object twice.
C39_DistinctObjectPaths ==
    \A p, q \in objOf : p[1] # q[1] => p[2] # q[2]


\* C40: a source file that does not exist is always reported stale and never
\* yields a cache hit, also when it was deleted between a successful compile
\* and the update_cache that follows it.
C40_MissingSourceIsStale ==
    \A s \in Sources :
        (cacheOn /\ phase # "idle" /\ content[s] = Missing)
            => (is_changed(cache_data, s, content[s]) /\ ~CacheHit(s))

====
